---- MODULE Spec2Model ----
(***************************************************************************)
(* Model of StripeService (src/src/services/StripeSubscriptionSyncService  *)
(* .ts): the two participant mapping tables, the link / unlink operations  *)
(* and the webhook handler that registers and unregisters subscriptions.   *)
(*                                                                         *)
(* Every public method is an async function.  A call is modelled as a      *)
(* call slot whose pc names the await it is suspended on; one action runs  *)
(* the store / gateway operation awaited together with the synchronous     *)
(* continuation up to the next await (or the return / throw).              *)
(***************************************************************************)
EXTENDS Integers, Sequences, FiniteSets, Bags, TLC

\* ------------------------------------------------------------- bounds
MaxOps == 3        \* calls started in one behaviour

Calls == {1, 2}    \* call slots: two calls may be in flight together
Participants == {"alice", "bob"}
ExternalIds == {"id_1", "id_2"}
SubIds == {"sub_1", "sub_2"}
Seconds == {1700, 1702}   \* period bounds, in seconds since the epoch
Statuses == {"active", "canceled"}
EventTypes == {"customer.subscription.created", "customer.subscription.updated",
               "customer.subscription.deleted", "invoice.paid"}
Kinds == {"customer", "connectedAccount"}

\* subscription.customer: string | Stripe.Customer | Stripe.DeletedCustomer
\* (or absent); an id may be the empty string.
CustomerRefs ==
    [tag : {"string"}, id : ExternalIds \cup {""}, deleted : {FALSE}]
    \cup [tag : {"object"}, id : ExternalIds \cup {""}, deleted : BOOLEAN]
    \cup [tag : {"null"}, id : {""}, deleted : {FALSE}]

\* Stripe.Subscription, the fields the service reads.  A billing period ends
\* after it starts.
RawSubscriptions ==
    {r \in [id : SubIds, status : Statuses, customer : CustomerRefs,
            current_period_start : Seconds, current_period_end : Seconds] :
        r.current_period_start < r.current_period_end}

VARIABLES
    stripe,         \* this.stripe is set (TRUE) or null (FALSE)
    instance,       \* StripeService.instance exists: the constructor returned
    maps,           \* maps[k]: bag of the documents {participant, externalId} of table k
    subscriptions,  \* the SubscriptionModel collection: set of stored records
    nextId,         \* next _id the subscription store hands out
    calls,          \* calls[c]: the call in slot c
    started,        \* calls started so far
    overlap,        \* TRUE: a call may start while another is in flight
    unique          \* TRUE: the subscription store rejects a second record
                    \* with a stripeId it already holds

vars == <<stripe, instance, maps, subscriptions, nextId, calls, started, overlap, unique>>

Idle ==
    [pc |-> "idle", op |-> "none", kind |-> "none", participant |-> "none",
     externalId |-> "none", evType |-> "none", subId |-> "none",
     raw |-> <<>>, customerId |-> "none",
     result |-> "none", log |-> <<>>, adds |-> <<>>, removes |-> <<>>]

InFlight(c) == calls[c].pc \notin {"idle", "done"}

\* A new call may be made.
MayStart == instance /\ started < MaxOps /\ (overlap \/ \A d \in Calls : ~InFlight(d))

\* ------------------------------------------------------- call plumbing
\* A call that returns or throws: `thrown` is "none" on a normal return.  Its
\* locals are gone; its arguments, its result and what it logged and called
\* on the repository are kept for the caller to see.
Finish(c, thrown, logged) ==
    calls' = [calls EXCEPT ![c] =
                [@ EXCEPT !.pc = "done", !.raw = <<>>, !.customerId = "none",
                          !.result = IF thrown = "none" THEN "ok" ELSE thrown,
                          !.log = @ \o logged]]

\* A call that returns `value` to its caller.
FinishValue(c, value, logged) ==
    calls' = [calls EXCEPT ![c] =
                [@ EXCEPT !.pc = "done", !.raw = <<>>, !.customerId = "none",
                          !.result = value, !.log = @ \o logged]]

\* The caller takes the result; the slot is free for the next call.
Return(c) ==
    /\ calls[c].pc = "done"
    /\ calls' = [calls EXCEPT ![c] = Idle]
    /\ UNCHANGED <<stripe, instance, maps, subscriptions, nextId, started, overlap, unique>>

\* ------------------------------------------------- the mapping tables
MappingDoc(p, e) == [participant |-> p, externalId |-> e]

\* Documents of table k that a query {externalId: e} matches.
Matching(k, e) == {d \in BagToSet(maps[k]) : d.externalId = e}

\* Number of documents of table k with externalId e.
CountFor(k, e) ==
    LET ds == Matching(k, e)
        RECURSIVE Sum(_)
        Sum(S) == IF S = {} THEN 0
                  ELSE LET d == CHOOSE x \in S : TRUE
                       IN CopiesIn(d, maps[k]) + Sum(S \ {d})
    IN Sum(ds)

\* (mutant) the lookup also filters on the participant.
linkFilterByParticipant(k, p, e) == {d \in Matching(k, e) : d.participant = p}

\* Model.findOne({externalId}): the filter of the link lookup.
linkFilter(k, p, e) == Matching(k, e)

\* catch of the link / unlink methods: log, then rethrow.
rethrowCatch(op, err) == [thrown |-> err, logged |-> <<<<"error", op, err>>>>]

\* new Model({participant, externalId}).save(): the document is inserted.
save(k, p, e) == maps' = [maps EXCEPT ![k] = @ (+) SetToBag({MappingDoc(p, e)})]

\* linkParticipantToCustomer / linkParticipantToConnectedAccount are called:
\* the lookup is issued.
linkCall(c, k) ==
    /\ calls[c].pc = "idle"
    /\ MayStart
    /\ \E p \in Participants, e \in ExternalIds :
         calls' = [calls EXCEPT ![c] =
                     [Idle EXCEPT !.pc = "link_findOne", !.op = "link", !.kind = k,
                                  !.participant = p, !.externalId = e]]
    /\ started' = started + 1
    /\ UNCHANGED <<stripe, instance, maps, subscriptions, nextId, overlap, unique>>

\* The lookup answers: an existing mapping throws, otherwise save() is issued.
linkFindOne(c, k) ==
    /\ calls[c].pc = "link_findOne"
    /\ calls[c].kind = k
    /\ IF linkFilter(k, calls[c].participant, calls[c].externalId) # {}
       THEN LET r == rethrowCatch("link", "AlreadyLinked")
            IN Finish(c, r.thrown, r.logged)
       ELSE calls' = [calls EXCEPT ![c].pc = "link_save"]
    /\ UNCHANGED <<stripe, instance, maps, subscriptions, nextId, started, overlap, unique>>

\* save() completes and the method returns.
linkSave(c, k) ==
    /\ calls[c].pc = "link_save"
    /\ calls[c].kind = k
    /\ save(k, calls[c].participant, calls[c].externalId)
    /\ Finish(c, "none", <<>>)
    /\ UNCHANGED <<stripe, instance, subscriptions, nextId, started, overlap, unique>>

linkParticipantToCustomer(c) ==
    \/ linkCall(c, "customer")
    \/ linkFindOne(c, "customer")
    \/ linkSave(c, "customer")

linkParticipantToConnectedAccount(c) ==
    \/ linkCall(c, "connectedAccount")
    \/ linkFindOne(c, "connectedAccount")
    \/ linkSave(c, "connectedAccount")

\* Model.findOneAndDelete({externalId}): one matching document is removed
\* atomically and returned, or null.
unlinkCall(c, k) ==
    /\ calls[c].pc = "idle"
    /\ MayStart
    /\ \E e \in ExternalIds :
         calls' = [calls EXCEPT ![c] =
                     [Idle EXCEPT !.pc = "unlink_findOneAndDelete", !.op = "unlink",
                                  !.kind = k, !.externalId = e]]
    /\ started' = started + 1
    /\ UNCHANGED <<stripe, instance, maps, subscriptions, nextId, overlap, unique>>

\* (mutant) findOne in place of findOneAndDelete: nothing is removed.
findOneNoDelete(k, d) == maps' = maps /\ UNCHANGED subscriptions

\* (mutant) every document of the matched document's participant is removed.
deleteManyByParticipant(k, d) ==
    /\ maps' = [maps EXCEPT ![k] =
                  [x \in {y \in DOMAIN maps[k] : y.participant # d.participant}
                     |-> maps[k][x]]]
    /\ UNCHANGED subscriptions

\* (mutant) the unlink cascades to the stored subscriptions of the
\* matched document's participant.
findOneAndDeleteCascade(k, d) ==
    /\ maps' = [maps EXCEPT ![k] = @ (-) SetToBag({d})]
    /\ subscriptions' = {s \in subscriptions : s.sub.participant # d.participant}

\* The mapping document d is removed; the method calls nothing else, the
\* subscription records stay as they are.
findOneAndDelete(k, d) ==
    /\ maps' = [maps EXCEPT ![k] = @ (-) SetToBag({d})]
    /\ UNCHANGED subscriptions

unlinkFindOneAndDelete(c, k) ==
    /\ calls[c].pc = "unlink_findOneAndDelete"
    /\ calls[c].kind = k
    /\ IF Matching(k, calls[c].externalId) = {}
       THEN /\ LET r == rethrowCatch("unlink", "NotFound")
               IN Finish(c, r.thrown, r.logged)
            /\ UNCHANGED <<maps, subscriptions>>
       ELSE /\ \E d \in Matching(k, calls[c].externalId) : findOneAndDelete(k, d)
            /\ Finish(c, "none", <<<<"log", "unlink", "unlinked">>>>)
    /\ UNCHANGED <<stripe, instance, nextId, started, overlap, unique>>

unlinkParticipantFromCustomer(c) ==
    \/ unlinkCall(c, "customer")
    \/ unlinkFindOneAndDelete(c, "customer")

unlinkParticipantFromConnectedAccount(c) ==
    \/ unlinkCall(c, "connectedAccount")
    \/ unlinkFindOneAndDelete(c, "connectedAccount")

\* --------------------------------------------------------- translation
\* (mutant) the deleted marker of an expanded customer is not looked at.
getParticipantIgnoringDeleted(customer) ==
    IF customer.tag \in {"string", "object"} /\ customer.id # ""
    THEN [err |-> "none", customerId |-> customer.id]
    ELSE [err |-> "UnresolvableCustomer", customerId |-> ""]

\* (mutant) the final `if (customerId)` is dropped: an empty id is looked up.
getParticipantNoEmptyCheck(customer) ==
    IF customer.tag = "string"
    THEN [err |-> "none", customerId |-> customer.id]
    ELSE IF customer.tag = "object" /\ customer.deleted
    THEN [err |-> "CustomerDeleted", customerId |-> ""]
    ELSE IF customer.tag = "object"
    THEN [err |-> "none", customerId |-> customer.id]
    ELSE [err |-> "UnresolvableCustomer", customerId |-> ""]

\* getParticipant, the part before the mapping lookup: the customer id of the
\* raw customer reference, or the error thrown.
getParticipant(customer) ==
    IF customer.tag = "string"
    THEN IF customer.id # "" THEN [err |-> "none", customerId |-> customer.id]
         ELSE [err |-> "UnresolvableCustomer", customerId |-> ""]
    ELSE IF customer.tag = "object" /\ customer.deleted
    THEN [err |-> "CustomerDeleted", customerId |-> ""]
    ELSE IF customer.tag = "object" /\ customer.id # ""
    THEN [err |-> "none", customerId |-> customer.id]
    ELSE [err |-> "UnresolvableCustomer", customerId |-> ""]

getBillingType(subscription) == "payAmount"

\* (mutant) the seconds are taken for milliseconds.
DateOfSecondsUnscaled(sec) == sec

\* new Date(seconds * 1000): the instant in milliseconds since the epoch.
DateOfSeconds(sec) == sec * 1000

\* formatStripeSubscription, the object literal it returns.
formatStripeSubscription(subscription, participant) ==
    [stripeId |-> subscription.id,
     isActive |-> (subscription.status = "active"),
     participant |-> participant,
     subscriptionType |-> getBillingType(subscription),
     resource |-> "",
     resources |-> <<>>,
     details |-> [startDate |-> DateOfSeconds(subscription.current_period_start),
                  endDate |-> DateOfSeconds(subscription.current_period_end)]]

\* ------------------------------------------------------------- connect
\* catch of connect: log, return null.
connectCatch(err) ==
    [thrown |-> "none", logged |-> <<<<"error", "connect", err>>>>]

\* connect(email) is called: the code up to stripe.customers.create.
connect(c) ==
    /\ calls[c].pc = "idle"
    /\ MayStart
    /\ started' = started + 1
    /\ LET call == [Idle EXCEPT !.op = "connect"]
       IN IF ~stripe
          THEN LET r == connectCatch("UninitializedGateway")
               IN calls' = [calls EXCEPT ![c] =
                              [call EXCEPT !.pc = "done",
                                           !.result = IF r.thrown = "none" THEN "null"
                                                      ELSE r.thrown,
                                           !.log = r.logged]]
          ELSE calls' = [calls EXCEPT ![c] = [call EXCEPT !.pc = "customers_create"]]
    /\ UNCHANGED <<stripe, instance, maps, subscriptions, nextId, overlap, unique>>

\* stripe.customers.create answers: the customer is returned.
customersCreate(c) ==
    /\ calls[c].pc = "customers_create"
    /\ FinishValue(c, "customer", <<>>)
    /\ UNCHANGED <<stripe, instance, maps, subscriptions, nextId, started, overlap, unique>>

\* stripe.customers.create fails: logged, null is returned.
customersCreateFails(c) ==
    /\ calls[c].pc = "customers_create"
    /\ LET r == connectCatch("GatewayError")
       IN FinishValue(c, IF r.thrown = "none" THEN "null" ELSE r.thrown, r.logged)
    /\ UNCHANGED <<stripe, instance, maps, subscriptions, nextId, started, overlap, unique>>

\* ------------------------------------------------------------- webhook
\* (mutant) the catch of registerSubscription rethrows.
registerCatchRethrows(err) ==
    [thrown |-> err, logged |-> <<<<"error", "registerSubscription", err>>>>]

\* catch of registerSubscription / unregisterSubscription: log, no rethrow.
registerCatch(err) ==
    [thrown |-> "none", logged |-> <<<<"error", "registerSubscription", err>>>>]

unregisterCatch(err) ==
    [thrown |-> "none", logged |-> <<<<"error", "unregisterSubscription", err>>>>]

\* (mutant) the catch of handleWebhook rethrows, as the link methods do.
handleWebhookCatchRethrows(err) ==
    [thrown |-> err, logged |-> <<<<"error", "handleWebhook", err>>>>]

\* catch of handleWebhook: log, no rethrow.
handleWebhookCatch(err) ==
    [thrown |-> "none", logged |-> <<<<"error", "handleWebhook", err>>>>]

\* handleWebhook's try block ends with `err` thrown into it ("none": no throw).
handleWebhookEnd(c, err, logged) ==
    IF err = "none"
    THEN Finish(c, "none", logged)
    ELSE LET r == handleWebhookCatch(err)
         IN Finish(c, r.thrown, logged \o r.logged)

\* registerSubscription's try block throws `err`.
registerThrows(c, err, logged) ==
    LET r == registerCatch(err)
    IN handleWebhookEnd(c, r.thrown, logged \o r.logged)

\* unregisterSubscription's try block throws `err`.
unregisterThrows(c, err, logged) ==
    LET r == unregisterCatch(err)
    IN handleWebhookEnd(c, r.thrown, logged \o r.logged)

\* (mutant) 'updated' is handled like 'created': re-translate and store.
eventRouteUpdatedRegisters(type) ==
    IF type = "customer.subscription.deleted" THEN "unregister_findOne"
    ELSE IF type \in {"customer.subscription.created", "customer.subscription.updated"}
    THEN "retrieve"
    ELSE "done"

\* The switch on event.type: the await the handler is suspended on next
\* ("done": the case breaks without calling anything).
eventRoute(type) ==
    IF type = "customer.subscription.updated" THEN "done"
    ELSE IF type = "customer.subscription.deleted" THEN "unregister_findOne"
    ELSE IF type = "customer.subscription.created" THEN "retrieve"
    ELSE "done"

\* What the switch logs: only the default case does.
eventLog(type) ==
    IF type \in {"customer.subscription.updated", "customer.subscription.deleted",
                 "customer.subscription.created"}
    THEN <<>>
    ELSE <<<<"log", "handleWebhook", "Unhandled">>>>

\* handleWebhook(event) is called: the code up to the first await.
handleWebhook(c) ==
    /\ calls[c].pc = "idle"
    /\ MayStart
    /\ started' = started + 1
    /\ \E type \in EventTypes, sid \in SubIds :
         LET call == [Idle EXCEPT !.op = "webhook", !.evType = type, !.subId = sid]
         IN IF ~stripe
            THEN LET r == handleWebhookCatch("UninitializedGateway")
                 IN calls' = [calls EXCEPT ![c] =
                                [call EXCEPT !.pc = "done",
                                             !.result = IF r.thrown = "none" THEN "ok"
                                                        ELSE r.thrown,
                                             !.log = r.logged]]
            ELSE IF eventRoute(type) = "done"
            THEN calls' = [calls EXCEPT ![c] =
                             [call EXCEPT !.pc = "done", !.result = "ok",
                                          !.log = eventLog(type)]]
            ELSE calls' = [calls EXCEPT ![c] = [call EXCEPT !.pc = eventRoute(type)]]
    /\ UNCHANGED <<stripe, instance, maps, subscriptions, nextId, overlap, unique>>

\* (mutant) getStripeSubscription rethrows what it caught.
getStripeSubscriptionCatchRethrows(err) ==
    [thrown |-> "SubscriptionNotFound",
     logged |-> <<<<"error", "getStripeSubscription", err>>>>]

\* catch of getStripeSubscription: log, return null.
getStripeSubscriptionCatch(err) ==
    [thrown |-> "none", logged |-> <<<<"error", "getStripeSubscription", err>>>>]

\* formatStripeSubscription ends with `err` thrown out of it.  Called by
\* registerSubscription, the throw lands in its catch; called directly, it
\* reaches the caller.
formatThrows(c, err, logged) ==
    IF calls[c].op = "format"
    THEN Finish(c, err, logged)
    ELSE registerThrows(c, err, logged)

\* getStripeSubscription fails with `err`.  What its catch lets out goes
\* through formatStripeSubscription; on null formatStripeSubscription
\* returns null, which registerSubscription turns into a throw of its own.
getStripeSubscriptionEnd(c, err) ==
    LET r == getStripeSubscriptionCatch(err)
    IN IF r.thrown # "none"
       THEN formatThrows(c, r.thrown, r.logged)
       ELSE IF calls[c].op = "format"
       THEN FinishValue(c, "null", r.logged)
       ELSE registerThrows(c, "SubscriptionNotFound", r.logged)

\* formatStripeSubscription(subscriptionId) is called directly: the code of
\* getStripeSubscription up to its await.
formatStripeSubscriptionCall(c) ==
    /\ calls[c].pc = "idle"
    /\ MayStart
    /\ started' = started + 1
    /\ \E sid \in SubIds :
         LET call == [Idle EXCEPT !.op = "format", !.subId = sid]
         IN IF ~stripe
            THEN LET r == getStripeSubscriptionCatch("UninitializedGateway")
                 IN calls' = [calls EXCEPT ![c] =
                                [call EXCEPT !.pc = "done",
                                             !.result = IF r.thrown = "none" THEN "null"
                                                        ELSE r.thrown,
                                             !.log = r.logged]]
            ELSE calls' = [calls EXCEPT ![c] = [call EXCEPT !.pc = "retrieve"]]
    /\ UNCHANGED <<stripe, instance, maps, subscriptions, nextId, overlap, unique>>

\* stripe.subscriptions.retrieve fails: getStripeSubscription logs and returns
\* null, formatStripeSubscription returns null, registerSubscription throws.
getStripeSubscriptionFails(c) ==
    /\ calls[c].pc = "retrieve"
    /\ getStripeSubscriptionEnd(c, "GatewayError")
    /\ UNCHANGED <<stripe, instance, maps, subscriptions, nextId, started, overlap, unique>>

\* stripe.subscriptions.retrieve answers: getStripeSubscription returns the
\* raw subscription to formatStripeSubscription.
getStripeSubscription(c) ==
    /\ calls[c].pc = "retrieve"
    /\ \E raw \in RawSubscriptions :
         /\ raw.id = calls[c].subId
         /\ calls' = [calls EXCEPT ![c] =
                        [@ EXCEPT !.pc = "formatStripeSubscription", !.raw = <<raw>>]]
    /\ UNCHANGED <<stripe, instance, maps, subscriptions, nextId, started, overlap, unique>>

\* formatStripeSubscription goes on with the raw subscription: getParticipant
\* throws (nothing in formatStripeSubscription catches it) or issues the
\* mapping lookup.
formatStripeSubscriptionStep(c) ==
    /\ calls[c].pc = "formatStripeSubscription"
    /\ LET r == getParticipant(calls[c].raw[1].customer)
       IN IF r.err # "none"
          THEN formatThrows(c, r.err, <<>>)
          ELSE calls' = [calls EXCEPT ![c] =
                           [@ EXCEPT !.pc = "getRelatedParticipant",
                                     !.customerId = r.customerId]]
    /\ UNCHANGED <<stripe, instance, maps, subscriptions, nextId, started, overlap, unique>>

\* (mutant) findOneAndDelete in place of findOne: the matching documents go.
findOneConsumes(k, e) ==
    maps' = [maps EXCEPT ![k] =
               [x \in {y \in DOMAIN maps[k] : y.externalId # e} |-> maps[k][x]]]

\* Model.findOne({externalId: e}) is a read: the table is as before.
findOne(k, e) == maps' = maps

\* What CustomerParticipantMap.findOne({stripeCustomerId}) may lead
\* getRelatedParticipant to: the participant of a matching document, or
\* "NotFound" when there is none.
resolveParticipant(stripeCustomerId) ==
    LET ms == Matching("customer", stripeCustomerId)
    IN IF ms = {} THEN {"NotFound"} ELSE {d.participant : d \in ms}

\* The mapping lookup answers.  No mapping: getRelatedParticipant logs and
\* rethrows.  Otherwise the subscription is formatted, pushed to the batch
\* and addSubscriptions is called with the batch.
getRelatedParticipant(c) ==
    /\ calls[c].pc = "getRelatedParticipant"
    /\ \E p \in resolveParticipant(calls[c].customerId) :
         IF p = "NotFound"
         THEN LET r == rethrowCatch("getRelatedParticipant", "NotFound")
              IN formatThrows(c, r.thrown, r.logged)
         ELSE IF calls[c].op = "format"
         THEN calls' = [calls EXCEPT ![c] =
                [@ EXCEPT !.pc = "done", !.raw = <<>>, !.customerId = "none",
                          !.participant = p,
                          !.result = formatStripeSubscription(calls[c].raw[1], p)]]
         ELSE calls' = [calls EXCEPT ![c] =
                [@ EXCEPT !.pc = "addSubscriptions",
                          !.raw = <<>>, !.customerId = "none",
                          !.participant = p,
                          !.adds = Append(@,
                             <<formatStripeSubscription(calls[c].raw[1], p)>>)]]
    /\ findOne("customer", calls[c].customerId)
    /\ UNCHANGED <<stripe, instance, subscriptions, nextId, started, overlap, unique>>

\* BillingSubscriptionSyncService.addSubscriptions(batch): the records are
\* stored, each under a fresh _id.  A store that enforces uniqueness of
\* stripeId rejects, atomically, a batch with a stripeId it already holds.
addSubscriptions(c) ==
    /\ calls[c].pc = "addSubscriptions"
    /\ LET batch == calls[c].adds[Len(calls[c].adds)]
       IN IF unique /\ \E i \in 1..Len(batch), s \in subscriptions :
                          s.sub.stripeId = batch[i].stripeId
          THEN /\ registerThrows(c, "DuplicateKey", <<>>)
               /\ UNCHANGED <<subscriptions, nextId>>
          ELSE /\ subscriptions' = subscriptions \cup
                    {[_id |-> nextId + i - 1, sub |-> batch[i]] : i \in 1..Len(batch)}
               /\ nextId' = nextId + Len(batch)
               /\ handleWebhookEnd(c, "none", <<>>)
    /\ UNCHANGED <<stripe, instance, maps, started, overlap, unique>>

\* addSubscriptions fails: nothing is stored.
addSubscriptionsFails(c) ==
    /\ calls[c].pc = "addSubscriptions"
    /\ registerThrows(c, "RepositoryError", <<>>)
    /\ UNCHANGED <<stripe, instance, maps, subscriptions, nextId, started, overlap, unique>>

\* (mutant) the query has no stripeId filter.
findAnySubscription(stripeId) == subscriptions

\* Documents SubscriptionModel.findOne({stripeId}, {_id: 1}) may answer with.
findSubscription(stripeId) == {s \in subscriptions : s.sub.stripeId = stripeId}

\* SubscriptionModel.findOne answers.  (_id.toString() of a stored document
\* is never empty, so the method's last throw is dead.)
unregisterFindOne(c) ==
    /\ calls[c].pc = "unregister_findOne"
    /\ LET found == findSubscription(calls[c].subId)
       IN IF found = {}
          THEN unregisterThrows(c, "SubscriptionRecordNotFound", <<>>)
          ELSE \E s \in found :
                 calls' = [calls EXCEPT ![c] =
                   [@ EXCEPT !.pc = "removeSubscription",
                             !.removes = Append(@, s._id)]]
    /\ UNCHANGED <<stripe, instance, maps, subscriptions, nextId, started, overlap, unique>>

\* BillingSubscriptionSyncService.removeSubscription(internalId).
removeSubscription(c) ==
    /\ calls[c].pc = "removeSubscription"
    /\ LET id == calls[c].removes[Len(calls[c].removes)]
           found == {s \in subscriptions : s._id = id}
       IN IF found = {}
          THEN /\ unregisterThrows(c, "NotFound", <<>>)
               /\ UNCHANGED subscriptions
          ELSE /\ subscriptions' = subscriptions \ found
               /\ handleWebhookEnd(c, "none", <<>>)
    /\ UNCHANGED <<stripe, instance, maps, nextId, started, overlap, unique>>

\* removeSubscription fails: nothing is removed.
removeSubscriptionFails(c) ==
    /\ calls[c].pc = "removeSubscription"
    /\ unregisterThrows(c, "RepositoryError", <<>>)
    /\ UNCHANGED <<stripe, instance, maps, subscriptions, nextId, started, overlap, unique>>

\* ------------------------------------------------------- specification
\* (mutant) the constructor has no catch: a missing key is thrown out of
\* retrieveServiceInstance.
constructorThrows(stripeSecretKey) ==
    IF stripeSecretKey
    THEN [stripe |-> TRUE, thrown |-> "none", logged |-> <<>>]
    ELSE [stripe |-> FALSE, thrown |-> "UninitializedGateway", logged |-> <<>>]

\* new StripeService(): with config.stripeSecretKey set this.stripe is the
\* gateway client; without it the constructor throws inside its own try,
\* logs in its catch and returns with this.stripe null.
constructor(stripeSecretKey) ==
    IF stripeSecretKey
    THEN [stripe |-> TRUE, thrown |-> "none", logged |-> <<>>]
    ELSE [stripe |-> FALSE, thrown |-> "none",
          logged |-> <<<<"error", "constructor", "UninitializedGateway">>>>]

\* The constructor: this.stripe is set when config.stripeSecretKey is, and
\* stays null (the error is logged) when it is not.  The stores start empty.
Start ==
    /\ \E stripeSecretKey \in BOOLEAN :
         LET r == constructor(stripeSecretKey)
         IN stripe = r.stripe /\ instance = (r.thrown = "none")
    /\ maps = [k \in Kinds |-> EmptyBag]
    /\ subscriptions = {}
    /\ nextId = 1
    /\ calls = [c \in Calls |-> Idle]
    /\ started = 0

Init == Start /\ overlap = TRUE /\ unique = FALSE

InitSeq == Start /\ overlap = FALSE /\ unique = FALSE

\* The service is constructed over stores an earlier run has filled: alice is
\* linked to customer id_1, and the 'created' event of sub_2 was handled.
StoredSubscription ==
    formatStripeSubscription(
        [id |-> "sub_2", status |-> "active",
         customer |-> [tag |-> "string", id |-> "id_1", deleted |-> FALSE],
         current_period_start |-> 1700, current_period_end |-> 1702],
        "alice")

Stored ==
    /\ stripe = TRUE
    /\ instance = TRUE
    /\ maps = [k \in Kinds |->
                 IF k = "customer" THEN SetToBag({MappingDoc("alice", "id_1")})
                 ELSE EmptyBag]
    /\ subscriptions = {[_id |-> 1, sub |-> StoredSubscription]}
    /\ nextId = 2
    /\ calls = [c \in Calls |-> Idle]
    /\ started = 0

InitStored == Stored /\ overlap = TRUE /\ unique = FALSE

\* The same, over a subscription store that enforces uniqueness of stripeId.
InitUnique == Stored /\ overlap = TRUE /\ unique = TRUE

Next ==
    \E c \in Calls :
        \/ linkParticipantToCustomer(c)
        \/ linkParticipantToConnectedAccount(c)
        \/ unlinkParticipantFromCustomer(c)
        \/ unlinkParticipantFromConnectedAccount(c)
        \/ connect(c)
        \/ customersCreate(c)
        \/ customersCreateFails(c)
        \/ handleWebhook(c)
        \/ formatStripeSubscriptionCall(c)
        \/ getStripeSubscription(c)
        \/ getStripeSubscriptionFails(c)
        \/ formatStripeSubscriptionStep(c)
        \/ getRelatedParticipant(c)
        \/ addSubscriptions(c)
        \/ addSubscriptionsFails(c)
        \/ unregisterFindOne(c)
        \/ removeSubscription(c)
        \/ removeSubscriptionFails(c)
        \/ Return(c)

\* Calls may overlap: any interleaving of their steps.
Spec == Init /\ [][Next]_vars

\* Calls do not overlap: a call starts only when no other call is in flight.
SpecSeq == InitSeq /\ [][Next]_vars

SpecStored == InitStored /\ [][Next]_vars

SpecUnique == InitUnique /\ [][Next]_vars

\* ---------------------------------------------------------- properties
\* Call c takes a step in this transition.
Steps(c) == calls'[c] # calls[c]

\* Call c is a finished call of operation op.
Done(c, op) == calls[c].pc = "done" /\ calls[c].op = op

HasLogged(c, entry) == \E i \in 1..Len(calls[c].log) : calls[c].log[i] = entry

\* C1: in a sequential run, for either mapping kind, a successful link(p1, e)
\* leaves the mapping (p1, e) in the table, and a link(p2, e) with p2 # p1
\* made while e is mapped to p1 fails with AlreadyLinked, thrown to the
\* caller, and leaves both tables as they were.
C1_RelinkFailsAlreadyLinked ==
    [][\A c \in Calls :
         LET k == calls[c].kind
             p == calls[c].participant
             e == calls[c].externalId
         IN /\ (calls[c].pc = "link_save" /\ Steps(c))
                 => /\ calls'[c].pc = "done" /\ calls'[c].result = "ok"
                    /\ BagIn(MappingDoc(p, e), maps'[k])
            /\ (/\ calls[c].pc = "link_findOne" /\ Steps(c)
                /\ \E d \in Matching(k, e) : d.participant # p)
                 => /\ calls'[c].pc = "done"
                    /\ calls'[c].result = "AlreadyLinked"
                    /\ maps' = maps]_vars

C1_Witness ==
    \E c \in Calls :
        /\ Done(c, "link") /\ calls[c].result = "AlreadyLinked"
        /\ \E d \in Matching(calls[c].kind, calls[c].externalId) :
             d.participant # calls[c].participant

\* C2: of two link calls for the same externalId of the same kind that ran
\* concurrently (both inserted: the table holds two documents for the id),
\* at most one has returned successfully.
C2_AtMostOneWinner ==
    \A c1, c2 \in Calls :
        (/\ c1 # c2
         /\ Done(c1, "link") /\ Done(c2, "link")
         /\ calls[c1].kind = calls[c2].kind
         /\ calls[c1].externalId = calls[c2].externalId
         /\ CountFor(calls[c1].kind, calls[c1].externalId) >= 2)
        => ~(calls[c1].result = "ok" /\ calls[c2].result = "ok")

\* C3: each mapping table holds at most one document per externalId, in
\* every state reachable by any interleaving of the operations.
C3_ExternalIdUnique ==
    \A k \in Kinds, e \in ExternalIds : CountFor(k, e) <= 1

\* C4: in every state of a sequential run, no participant appears in two
\* mappings of the same kind with different externalIds.
C4_OneExternalIdPerParticipant ==
    \A k \in Kinds, p \in Participants :
        Cardinality({d.externalId : d \in {x \in BagToSet(maps[k]) : x.participant = p}}) <= 1

\* C5: in a sequential run, right after a successful link(p, e) on the
\* customer table resolving e yields p and nothing else, and right after a
\* successful unlink(e) resolving e yields NotFound.
C5_LinkRoundTrip ==
    [][\A c \in Calls :
         (/\ Steps(c) /\ calls[c].kind = "customer"
          /\ calls'[c].pc = "done" /\ calls'[c].result = "ok")
         => /\ calls[c].op = "link"
                 => resolveParticipant(calls[c].externalId)' = {calls[c].participant}
            /\ calls[c].op = "unlink"
                 => resolveParticipant(calls[c].externalId)' = {"NotFound"}]_vars

C5_Witness ==
    \E c \in Calls :
        /\ Done(c, "unlink") /\ calls[c].kind = "customer" /\ calls[c].result = "ok"
        /\ resolveParticipant(calls[c].externalId) = {"NotFound"}
        /\ \E e \in ExternalIds : resolveParticipant(e) # {"NotFound"}

\* C6: in a sequential run, for either mapping kind, unlink(e) with no
\* mapping for e throws NotFound and changes no table; with a mapping for e
\* it returns, no mapping for e is left, every document with another
\* externalId is kept and the table of the other kind is unchanged.
C6_UnlinkFrame ==
    [][\A c \in Calls :
         LET k == calls[c].kind
             e == calls[c].externalId
         IN (calls[c].pc = "unlink_findOneAndDelete" /\ Steps(c))
            => /\ calls'[c].pc = "done"
               /\ IF Matching(k, e) = {}
                  THEN calls'[c].result = "NotFound" /\ maps' = maps
                  ELSE /\ calls'[c].result = "ok"
                       /\ Matching(k, e)' = {}
                       /\ \A d \in BagToSet(maps[k]) :
                            d.externalId # e
                              => CopiesIn(d, maps'[k]) = CopiesIn(d, maps[k])
                       /\ \A d \in BagToSet(maps'[k]) : BagIn(d, maps[k])
                       /\ \A j \in Kinds \ {k} : maps'[j] = maps[j]]_vars

C6_Witness ==
    \E c \in Calls :
        /\ Done(c, "unlink") /\ calls[c].result = "ok"
        /\ Matching(calls[c].kind, calls[c].externalId) = {}
        /\ \E d \in BagToSet(maps[calls[c].kind]) : d.externalId # calls[c].externalId

HasError(c) == \E i \in 1..Len(calls[c].log) : calls[c].log[i][1] = "error"

Created(c) == calls[c].op = "webhook" /\ calls[c].evType = "customer.subscription.created"

Deleted(c) == calls[c].op = "webhook" /\ calls[c].evType = "customer.subscription.deleted"

\* C7: a 'created' event whose subscription the gateway returns and whose
\* customer is linked to participant p makes exactly one addSubscriptions
\* call; its batch is one record with the raw subscription's id, participant
\* p, isActive iff the raw status is 'active', and startDate / endDate the raw
\* period bounds in seconds times 1000.
C7_CreatedAddsOneRecord ==
    [][\A c \in Calls :
         Created(c) /\ Steps(c) =>
           /\ calls[c].pc = "formatStripeSubscription"
                => LET cust == calls[c].raw[1].customer
                   IN (cust.id # "" /\ ~cust.deleted)
                        => /\ calls'[c].pc = "getRelatedParticipant"
                           /\ calls'[c].customerId = cust.id
                           /\ calls'[c].raw = calls[c].raw
                           /\ calls'[c].adds = <<>>
           /\ calls[c].pc = "getRelatedParticipant"
                => \A p \in Participants :
                     Matching("customer", calls[c].customerId)
                         = {MappingDoc(p, calls[c].customerId)}
                     => LET raw == calls[c].raw[1]
                            batch == calls'[c].adds[1]
                        IN /\ calls'[c].pc = "addSubscriptions"
                           /\ Len(calls'[c].adds) = 1
                           /\ Len(batch) = 1
                           /\ batch[1].stripeId = raw.id
                           /\ raw.id = calls[c].subId
                           /\ batch[1].participant = p
                           /\ batch[1].isActive = (raw.status = "active")
                           /\ batch[1].details.startDate = raw.current_period_start * 1000
                           /\ batch[1].details.endDate = raw.current_period_end * 1000
           /\ calls[c].pc = "addSubscriptions"
                => calls'[c].pc = "done" /\ calls'[c].adds = calls[c].adds]_vars

C7_Witness ==
    \E c \in Calls :
        /\ Created(c) /\ calls[c].pc = "done" /\ calls[c].result = "ok"
        /\ Len(calls[c].adds) = 1
        /\ calls[c].adds[1][1].isActive
        /\ calls[c].adds[1][1].details.startDate # calls[c].adds[1][1].details.endDate
        /\ \E s \in subscriptions : s.sub = calls[c].adds[1][1]

\* C8: a 'created' event whose raw customer is an expanded deleted customer,
\* or whose customer id has no mapping in the customer table when it is
\* looked up, ends the handler there: addSubscriptions is not called, nothing
\* is stored and no mapping is created.
C8_NoWriteWithoutParticipant ==
    [][\A c \in Calls :
         (/\ Created(c) /\ Steps(c)
          /\ \/ /\ calls[c].pc = "formatStripeSubscription"
                /\ calls[c].raw[1].customer.tag = "object"
                /\ calls[c].raw[1].customer.deleted
             \/ /\ calls[c].pc = "getRelatedParticipant"
                /\ Matching("customer", calls[c].customerId) = {})
         => /\ calls'[c].pc = "done"
            /\ calls'[c].adds = <<>>
            /\ subscriptions' = subscriptions
            /\ maps' = maps]_vars

C8_Witness ==
    \E c1, c2 \in Calls :
        /\ Created(c1) /\ calls[c1].pc = "done" /\ calls[c1].adds = <<>>
        /\ HasLogged(c1, <<"error", "registerSubscription", "CustomerDeleted">>)
        /\ Created(c2) /\ calls[c2].pc = "done" /\ calls[c2].adds = <<>>
        /\ HasLogged(c2, <<"error", "getRelatedParticipant", "NotFound">>)

\* C9: a 'deleted' event for a subscription id with no stored record ends
\* with removeSubscription never called and the stored subscriptions
\* unchanged; the failure is logged and the handler returns normally.
C9_DeletedWithoutRecord ==
    [][\A c \in Calls :
         (/\ Deleted(c) /\ Steps(c)
          /\ calls[c].pc = "unregister_findOne"
          /\ \A s \in subscriptions : s.sub.stripeId # calls[c].subId)
         => /\ calls'[c].pc = "done"
            /\ calls'[c].result = "ok"
            /\ calls'[c].removes = <<>>
            /\ subscriptions' = subscriptions
            /\ \E i \in 1..Len(calls'[c].log) :
                 calls'[c].log[i] = <<"error", "unregisterSubscription",
                                      "SubscriptionRecordNotFound">>]_vars

C9_Witness ==
    \E c \in Calls :
        /\ Deleted(c) /\ calls[c].pc = "done" /\ calls[c].result = "ok"
        /\ calls[c].removes = <<>>
        /\ HasLogged(c, <<"error", "unregisterSubscription", "SubscriptionRecordNotFound">>)
        /\ subscriptions # {}

\* C10: handleWebhook always returns normally, whatever the event kind and
\* whatever failed (uninitialized gateway, gateway fetch, translation,
\* mapping lookup, repository); a handler that ends without the repository
\* call its event asks for has logged an error.
C10_WebhookNeverThrows ==
    \A c \in Calls :
        Done(c, "webhook") =>
          /\ calls[c].result = "ok"
          /\ ~stripe => HasLogged(c, <<"error", "handleWebhook", "UninitializedGateway">>)
          /\ (Created(c) /\ calls[c].adds = <<>>) => HasError(c)
          /\ (Deleted(c) /\ calls[c].removes = <<>>) => HasError(c)

C10_Witness ==
    \E c1, c2 \in Calls :
        /\ Done(c1, "webhook") /\ calls[c1].result = "ok"
        /\ HasLogged(c1, <<"error", "registerSubscription", "RepositoryError">>)
        /\ Done(c2, "webhook") /\ calls[c2].result = "ok"
        /\ HasLogged(c2, <<"error", "registerSubscription", "SubscriptionNotFound">>)

\* C11: an 'updated' event, or an event of a kind the switch does not know,
\* changes no state: the handler ends in the step that starts it, without
\* fetching from the gateway or calling the repository, and the stored
\* subscriptions and both mapping tables are as before.
C11_UpdatedAndUnknownAreNoOps ==
    [][\A c \in Calls :
         (/\ calls[c].pc = "idle" /\ Steps(c)
          /\ calls'[c].op = "webhook"
          /\ calls'[c].evType \notin {"customer.subscription.created",
                                      "customer.subscription.deleted"})
         => /\ calls'[c].pc = "done"
            /\ calls'[c].result = "ok"
            /\ calls'[c].raw = <<>>
            /\ calls'[c].adds = <<>>
            /\ calls'[c].removes = <<>>
            /\ subscriptions' = subscriptions
            /\ maps' = maps]_vars

C11_Witness ==
    \E c1, c2 \in Calls :
        /\ stripe
        /\ Done(c1, "webhook") /\ calls[c1].evType = "customer.subscription.updated"
        /\ calls[c1].log = <<>>
        /\ Done(c2, "webhook") /\ calls[c2].evType = "invoice.paid"
        /\ HasLogged(c2, <<"log", "handleWebhook", "Unhandled">>)

\* The mapping lookup of call c is issued with customer id `id`.
LooksUp(c, id) ==
    calls'[c].pc = "getRelatedParticipant" /\ calls'[c].customerId = id

\* Call c ends with err thrown out of formatStripeSubscription: to the
\* caller of a direct call, into registerSubscription's catch otherwise.
FailsWith(c, err) ==
    /\ calls'[c].pc = "done"
    /\ IF calls[c].op = "format"
       THEN calls'[c].result = err /\ calls'[c].log = <<>>
       ELSE calls'[c].log = <<<<"error", "registerSubscription", err>>>>

\* C16: getParticipant decides on the raw customer reference alone, in four
\* cases: a (non-empty) string id is looked up in the customer mapping; an
\* expanded object marked deleted fails with CustomerDeleted and no lookup;
\* an expanded object that is not deleted and has a non-empty id is looked up
\* by that id; every other reference (null, empty id) fails with
\* UnresolvableCustomer and no lookup.
C16_ParticipantFourWayCase ==
    [][\A c \in Calls :
         (calls[c].pc = "formatStripeSubscription" /\ Steps(c))
         => LET customer == calls[c].raw[1].customer
            IN IF customer.tag = "string" /\ customer.id # ""
               THEN LooksUp(c, customer.id)
               ELSE IF customer.tag = "object" /\ customer.deleted
               THEN FailsWith(c, "CustomerDeleted")
               ELSE IF customer.tag = "object" /\ customer.id # ""
               THEN LooksUp(c, customer.id)
               ELSE FailsWith(c, "UnresolvableCustomer")]_vars

\* All four cases have happened: a lookup by a string id is pending while a
\* call with an empty string id has failed.
C16_Witness ==
    \E c1, c2 \in Calls :
        /\ calls[c1].pc = "getRelatedParticipant"
        /\ calls[c1].raw[1].customer.tag = "string"
        /\ calls[c1].customerId = calls[c1].raw[1].customer.id
        /\ Done(c2, "webhook")
        /\ calls[c2].log = <<<<"error", "registerSubscription", "UnresolvableCustomer">>>>

\* Stored records whose externalId (stripeId) is not sid.
OtherRecords(subs, sid) == {s \in subs : s.sub.stripeId # sid}

\* C17: a 'deleted' event for a subscription id that has a stored record
\* calls removeSubscription once, with the internal id of a record whose
\* stripeId is the event's subscription id; no step of the handler changes a
\* record with another stripeId or either mapping table.
C17_DeletedRemovesMatchingRecord ==
    [][\A c \in Calls :
         (Deleted(c) /\ Steps(c) /\ calls[c].pc # "done")
         => /\ maps' = maps
            /\ OtherRecords(subscriptions', calls[c].subId)
                 = OtherRecords(subscriptions, calls[c].subId)
            /\ Len(calls'[c].removes) <= 1
            /\ calls'[c].adds = <<>>
            /\ (calls[c].pc = "unregister_findOne"
                  /\ \E s \in subscriptions : s.sub.stripeId = calls[c].subId)
               => /\ calls'[c].pc = "removeSubscription"
                  /\ Len(calls'[c].removes) = 1
                  /\ \E s \in subscriptions :
                       /\ s.sub.stripeId = calls[c].subId
                       /\ s._id = calls'[c].removes[1]
                  /\ subscriptions' = subscriptions
            /\ calls[c].pc = "removeSubscription"
               => /\ calls'[c].removes = calls[c].removes
                  /\ subscriptions' \in
                       {subscriptions,
                        {s \in subscriptions : s._id # calls[c].removes[1]}}]_vars

\* A 'deleted' event for sub_1 has been handled without error and removed
\* the record of sub_1, while the record of sub_2 is still stored.
C17_Witness ==
    \E c \in Calls :
        /\ Done(c, "webhook") /\ Deleted(c) /\ calls[c].subId = "sub_1"
        /\ calls[c].result = "ok" /\ ~HasError(c)
        /\ Len(calls[c].removes) = 1
        /\ calls[c].removes[1] # 1
        /\ \A s \in subscriptions : s.sub.stripeId # "sub_1"
        /\ \E s \in subscriptions : s._id = 1 /\ s.sub.stripeId = "sub_2"

\* Call c is, before or after the step, a call of one of the operations ops.
StepOf(c, ops) == Steps(c) /\ (calls[c].op \in ops \/ calls'[c].op \in ops)

\* C18: no step of handleWebhook, for any event type and whether the handler
\* ends well or with a logged failure, changes the customer mapping table or
\* the connected-account mapping table.
C18_WebhookOnlyReadsMappings ==
    [][\A c \in Calls : StepOf(c, {"webhook"}) => maps' = maps]_vars

\* A 'created' event has been stored and another event has failed, with the
\* mapping the store started with still there.
C18_Witness ==
    \E c1, c2 \in Calls :
        /\ Done(c1, "webhook") /\ Created(c1) /\ ~HasError(c1)
        /\ Len(calls[c1].adds) = 1
        /\ Done(c2, "webhook") /\ HasError(c2)
        /\ maps["customer"] = SetToBag({MappingDoc("alice", "id_1")})

\* C19: the participant of a stored subscription is written when 'created'
\* is handled and is not joined with the mapping afterwards: no step of a
\* link or an unlink, of either kind, changes the stored subscription
\* records, their participant included.
C19_StoredParticipantNotLiveJoin ==
    [][\A c \in Calls :
         StepOf(c, {"link", "unlink"}) => subscriptions' = subscriptions]_vars

\* The record of sub_1 was stored for alice through customer id_1; id_1 has
\* since been unlinked and linked to bob, and the record still says alice.
C19_Witness ==
    /\ \E s \in subscriptions :
         s.sub.stripeId = "sub_1" /\ s.sub.participant = "alice"
    /\ maps["customer"] = SetToBag({MappingDoc("bob", "id_1")})
    /\ \E c \in Calls : Done(c, "link") /\ calls[c].result = "ok"
                        /\ calls[c].participant = "bob"

\* C13 (as stated): once a 'created' and a 'deleted' event of the same
\* subscription s have both been handled to completion, one after the other
\* in either order and with no repository failure, no stored record has
\* stripeId s.
C13_CreatedAndDeletedLeaveNoRecord ==
    \A c1, c2 \in Calls :
        (/\ Done(c1, "webhook") /\ Created(c1)
         /\ Done(c2, "webhook") /\ Deleted(c2)
         /\ calls[c1].subId = calls[c2].subId
         /\ ~HasLogged(c1, <<"error", "registerSubscription", "RepositoryError">>)
         /\ ~HasLogged(c2, <<"error", "unregisterSubscription", "RepositoryError">>))
        => \A s \in subscriptions : s.sub.stripeId # calls[c1].subId

\* A direct formatStripeSubscription call c ends in this step because the
\* gateway could not retrieve the raw subscription (the retrieval failed, or
\* the gateway was never initialised).
RetrievalFails(c) ==
    /\ Steps(c)
    /\ calls'[c].op = "format"
    /\ calls[c].pc \in {"idle", "retrieve"}
    /\ calls'[c].pc = "done"

\* C14 (as stated): formatStripeSubscription of a subscription id the
\* gateway cannot retrieve throws SubscriptionNotFound to its caller.
C14_FormatPropagatesSubscriptionNotFound ==
    [][\A c \in Calls :
         RetrievalFails(c) => calls'[c].result = "SubscriptionNotFound"]_vars

\* C14 (amended): formatStripeSubscription of a subscription id the gateway
\* cannot retrieve throws nothing: getStripeSubscription logs the failure
\* and returns null, and formatStripeSubscription returns null to its
\* caller, with no store changed.  It is registerSubscription that turns
\* the null into an error, which it logs itself.
C14_FormatReturnsNull ==
    [][\A c \in Calls :
         /\ RetrievalFails(c)
            => /\ calls'[c].result = "null"
               /\ \E e \in {"GatewayError", "UninitializedGateway"} :
                    calls'[c].log = <<<<"error", "getStripeSubscription", e>>>>
               /\ subscriptions' = subscriptions /\ maps' = maps
         /\ (Created(c) /\ calls[c].pc = "retrieve" /\ calls'[c].pc = "done")
            => /\ calls'[c].result = "ok"
               /\ calls'[c].log =
                    <<<<"error", "getStripeSubscription", "GatewayError">>,
                      <<"error", "registerSubscription", "SubscriptionNotFound">>>>
               /\ calls'[c].adds = <<>>]_vars

\* With the gateway initialised, a direct call has returned null after a
\* failed retrieval, and a 'created' event has hit the same failure.
C14_Witness ==
    \E c1, c2 \in Calls :
        /\ stripe
        /\ Done(c1, "format") /\ calls[c1].result = "null"
        /\ calls[c1].log = <<<<"error", "getStripeSubscription", "GatewayError">>>>
        /\ Done(c2, "webhook") /\ Created(c2)
        /\ HasLogged(c2, <<"error", "registerSubscription", "SubscriptionNotFound">>)

\* Call c has logged an uninitialised-gateway error.
UninitializedGatewayLogged(c) ==
    \E i \in 1..Len(calls[c].log) : calls[c].log[i][3] = "UninitializedGateway"

\* C15 (as stated): a missing secret key is fatal when the service instance
\* is obtained, so no call on an instance ever fails with an
\* uninitialised-gateway error.
C15_MissingKeyFatalAtConstruction ==
    \A c \in Calls : ~UninitializedGatewayLogged(c)

\* C15 (amended): a missing secret key is not fatal at construction.  The
\* constructor logs and the instance exists with its gateway unset; every
\* call then fails on its own: handleWebhook logs the error and returns
\* normally without calling the repository, connect and the retrieval of a
\* subscription log it and return null; nothing is ever stored.
C15_MissingKeyFailsPerRequest ==
    /\ instance
    /\ ~stripe =>
         /\ subscriptions = {}
         /\ \A c \in Calls :
              /\ Done(c, "webhook")
                 => /\ calls[c].result = "ok"
                    /\ calls[c].log = <<<<"error", "handleWebhook", "UninitializedGateway">>>>
                    /\ calls[c].adds = <<>> /\ calls[c].removes = <<>>
              /\ Done(c, "connect")
                 => /\ calls[c].result = "null"
                    /\ calls[c].log = <<<<"error", "connect", "UninitializedGateway">>>>
              /\ Done(c, "format")
                 => /\ calls[c].result = "null"
                    /\ calls[c].log =
                         <<<<"error", "getStripeSubscription", "UninitializedGateway">>>>

\* Without a secret key, a webhook call and a connect call have both been
\* made on the instance and have failed on the unset gateway.
C15_Witness ==
    \E c1, c2 \in Calls :
        /\ ~stripe /\ instance
        /\ Done(c1, "webhook") /\ UninitializedGatewayLogged(c1)
        /\ Done(c2, "connect") /\ UninitializedGatewayLogged(c2)

\* Stored records whose externalId (stripeId) is sid.
RecordsOf(subs, sid) == {s \in subs : s.sub.stripeId = sid}

\* C12: over a subscription store that enforces uniqueness of stripeId
\* atomically, 'created' handlers running concurrently never leave two
\* records with one stripeId: the write of the handler that comes second is
\* rejected, stores nothing, is logged by registerSubscription and is not
\* surfaced (the handler returns normally); the write that finds no record
\* of that stripeId stores exactly one.
C12_UniqueStoreKeepsOneRecord ==
    [][/\ \A s1, s2 \in subscriptions' :
            s1.sub.stripeId = s2.sub.stripeId => s1 = s2
       /\ \A c \in Calls :
            (calls[c].pc = "addSubscriptions" /\ Steps(c))
            => /\ calls'[c].pc = "done"
               /\ calls'[c].result = "ok"
               /\ IF RecordsOf(subscriptions, calls[c].subId) # {}
                  THEN /\ subscriptions' = subscriptions
                       /\ \E e \in {"DuplicateKey", "RepositoryError"} :
                            calls'[c].log = <<<<"error", "registerSubscription", e>>>>
                  ELSE \/ /\ calls'[c].log = <<>>
                          /\ \E s \in subscriptions' :
                               /\ s.sub = calls[c].adds[1][1]
                               /\ subscriptions' = subscriptions \cup {s}
                               /\ RecordsOf(subscriptions', calls[c].subId) = {s}
                       \/ /\ subscriptions' = subscriptions
                          /\ calls'[c].log =
                               <<<<"error", "registerSubscription", "RepositoryError">>>>]_vars

\* Two handlers of the 'created' event of sub_1 have both finished: one
\* stored the record, the other was rejected and logged it, and one record
\* of sub_1 is stored.
C12_Witness ==
    \E c1, c2 \in Calls :
        /\ unique
        /\ Done(c1, "webhook") /\ Created(c1) /\ calls[c1].subId = "sub_1"
        /\ calls[c1].log = <<>> /\ Len(calls[c1].adds) = 1
        /\ Done(c2, "webhook") /\ Created(c2) /\ calls[c2].subId = "sub_1"
        /\ calls[c2].result = "ok"
        /\ calls[c2].log = <<<<"error", "registerSubscription", "DuplicateKey">>>>
        /\ \E s \in subscriptions : RecordsOf(subscriptions, "sub_1") = {s}

====
